---- MODULE Spec2Model ----
(***************************************************************************)
(* A model of main_base_to_packed.py: the export bundle is unzipped, its   *)
(* CSV part-files are read and concatenated, the table is filtered,        *)
(* projected and aggregated per 'Chave', and the result is published to    *)
(* the "Packed" worksheet in batches.                                      *)
(*                                                                         *)
(* Cells are strings.  NaN is pandas' missing value.  A DataFrame read     *)
(* from a CSV is [columns, rows]: the column labels in order and the rows, *)
(* each a tuple aligned with the labels.  The projected and the aggregated *)
(* tables have fixed labels and are sequences of records.                  *)
(***************************************************************************)
EXTENDS Integers, Sequences, FiniteSets, TLC

VARIABLES
    pc,               \* [run -> the place the run has reached]
    bundle,           \* the downloaded archive: "BadZipFile" or its members in os.listdir order
    download_dir,     \* whether DOWNLOAD_DIR exists
    unzip_folder,     \* whether DOWNLOAD_DIR/extracted_files exists
    browser,          \* "none", "open", "closed" or "close_failed"
    all_dfs,          \* the DataFrames read from the CSV part-files (None before the read)
    df_final,         \* their concatenation (None before the merge)
    df_selecionado,   \* the projected table (None before the projection)
    final_dataframe,  \* [run -> what unzip_and_process_data returned (None before the call)]
    printed,          \* [run -> the messages the run has printed]
    sheet,            \* the rows of the "Packed" worksheet
    sinkLog,          \* the calls made on the worksheet, in order
    chunk_size,       \* rows per append_rows call
    dados_lista,      \* [run -> the rows being uploaded]
    i                 \* [run -> the upload loop's index]

vars == <<pc, bundle, download_dir, unzip_folder, browser, all_dfs, df_final,
          df_selecionado, final_dataframe, printed, sheet, sinkLog, chunk_size,
          dados_lista, i>>

(***************************************************************************)
(* Bounds of the model.                                                    *)
(***************************************************************************)
MaxKeys == 3
MaxRows == 3
MaxFiles == 2
MaxFileRows == 2
MaxChunkSize == 2

(***************************************************************************)
(* Values.                                                                 *)
(***************************************************************************)
NaN == "NaN"

\* A name that is None or bound to a table: None, or Some(table).
None == [none |-> TRUE, df |-> <<>>]
Some(df) == [none |-> FALSE, df |-> df]
\* The same for a DataFrame read from CSV files.
NoFrame == [none |-> TRUE, df |-> [columns |-> <<>>, rows |-> <<>>]]
Facility == "SoC_SP_Cravinhos"
OtherFacility == "Other"

Range(s) == {s[n] : n \in DOMAIN s}
SeqsUpTo(S, n) == UNION {[1..k -> S] : k \in 0..n}
Min(S) == CHOOSE m \in S : \A n \in S : m <= n
Max(S) == CHOOSE m \in S : \A n \in S : m >= n

\* The business identifiers of the model, "K1" < "K2" < ... in string order.
Key(n) == "K" \o ToString(n)
Keys == {Key(n) : n \in 1..MaxKeys}
KeyRank(k) == CHOOSE n \in 1..MaxKeys : Key(n) = k

(***************************************************************************)
(* pandas: read_csv, concat, the filter, the projection, the aggregation.  *)
(***************************************************************************)

\* pd.read_csv(file, encoding='utf-8') of a readable file: the first line gives
\* the labels, an empty cell is read as NaN.
read_csv(file) ==
    [columns |-> file.header,
     rows |-> [n \in DOMAIN file.lines |->
                 [c \in DOMAIN file.lines[n] |->
                    IF file.lines[n][c] = "" THEN NaN ELSE file.lines[n][c]]]]

\* The labels of cols followed by those of more that cols lacks.
AppendNew(cols, more) == cols \o SelectSeq(more, LAMBDA c : c \notin Range(cols))

RECURSIVE UnionColumns(_)
UnionColumns(dfs) ==
    IF dfs = <<>> THEN <<>>
    ELSE AppendNew(UnionColumns(SubSeq(dfs, 1, Len(dfs) - 1)), dfs[Len(dfs)].columns)

Position(cols, c) == CHOOSE n \in DOMAIN cols : cols[n] = c

\* The rows of df laid out under the labels cols: NaN where df has no such label.
Reindex(df, cols) ==
    [n \in DOMAIN df.rows |->
       [c \in DOMAIN cols |->
          IF cols[c] \in Range(df.columns)
          THEN df.rows[n][Position(df.columns, cols[c])]
          ELSE NaN]]

RECURSIVE Flatten(_)
Flatten(ss) == IF ss = <<>> THEN <<>> ELSE Flatten(SubSeq(ss, 1, Len(ss) - 1)) \o ss[Len(ss)]

\* A concat that keeps only the labels every table has (join='inner').
concat_inner(dfs) ==
    LET cols == SelectSeq(UnionColumns(dfs),
                          LAMBDA c : \A n \in DOMAIN dfs : c \in Range(dfs[n].columns))
    IN  [columns |-> cols,
         rows |-> Flatten([n \in DOMAIN dfs |-> Reindex(dfs[n], cols)])]

\* pd.concat(all_dfs, ignore_index=True): rows in list order, aligned by label
\* over the union of the labels (outer join, labels in order of appearance).
concat(dfs) ==
    LET cols == UnionColumns(dfs)
    IN  [columns |-> cols,
         rows |-> Flatten([n \in DOMAIN dfs |-> Reindex(dfs[n], cols)])]

empty(df) == Len(df.rows) = 0 \/ Len(df.columns) = 0

FilterCol == 12
colunas_desejadas == <<0, 9, 15, 17, 2, 23>>

\* df_final.iloc[:, 12] and df_final.iloc[:, colunas_desejadas] raise IndexError
\* when a position lies beyond the last column.
FilterRaises(df) == ~empty(df) /\ FilterCol >= Len(df.columns)
ProjectRaises(df) == \E n \in DOMAIN colunas_desejadas : colunas_desejadas[n] >= Len(df.columns)

\* if not df_final.empty: df_final = df_final[df_final.iloc[:, 12] == "SoC_SP_Cravinhos"]
Filter(df) ==
    IF empty(df) THEN df
    ELSE [df EXCEPT !.rows = SelectSeq(df.rows, LAMBDA r : r[FilterCol + 1] = Facility)]

\* df_final.iloc[:, colunas_desejadas] with the columns renamed.
Project(df) ==
    [n \in DOMAIN df.rows |->
       [Chave    |-> df.rows[n][colunas_desejadas[1] + 1],
        Coluna9  |-> df.rows[n][colunas_desejadas[2] + 1],
        Coluna15 |-> df.rows[n][colunas_desejadas[3] + 1],
        Coluna17 |-> df.rows[n][colunas_desejadas[4] + 1],
        Coluna2  |-> df.rows[n][colunas_desejadas[5] + 1],
        Coluna23 |-> df.rows[n][colunas_desejadas[6] + 1]]]

\* df['Chave'].value_counts(): the occurrences of each value; NaN is not counted.
value_counts(df) ==
    [k \in {df[n].Chave : n \in DOMAIN df} \ {NaN} |->
       Cardinality({n \in DOMAIN df : df[n].Chave = k})]

\* GroupBy 'first': the first non-null entry of the column within the group.
first(df, k, col) ==
    LET filled == {n \in DOMAIN df : df[n].Chave = k /\ df[n][col] # NaN}
    IN  IF filled = {} THEN NaN ELSE df[Min(filled)][col]

RECURSIVE SortedKeys(_)
SortedKeys(S) ==
    IF S = {} THEN <<>>
    ELSE LET k == CHOOSE x \in S : \A y \in S : KeyRank(x) <= KeyRank(y)
         IN  <<k>> \o SortedKeys(S \ {k})

\* df.groupby('Chave').agg({...: 'first'}).reset_index(): one row per group,
\* groups sorted by key, rows whose key is NaN in no group.
groupby_first(df) ==
    LET ks == SortedKeys({df[n].Chave : n \in DOMAIN df} \ {NaN})
    IN  [g \in DOMAIN ks |->
           [Chave    |-> ks[g],
            Coluna9  |-> first(df, ks[g], "Coluna9"),
            Coluna15 |-> first(df, ks[g], "Coluna15"),
            Coluna17 |-> first(df, ks[g], "Coluna17"),
            Coluna2  |-> first(df, ks[g], "Coluna2"),
            Coluna23 |-> first(df, ks[g], "Coluna23")]]

\* pd.merge(agrupado, contagem, on='Chave') and the final column order: an inner
\* join that keeps the order of agrupado.
merge(agrupado, contagem) ==
    LET kept == SelectSeq(agrupado, LAMBDA g : g.Chave \in DOMAIN contagem)
    IN  [g \in DOMAIN kept |->
           [Chave      |-> kept[g].Chave,
            Coluna9    |-> kept[g].Coluna9,
            Coluna15   |-> kept[g].Coluna15,
            Coluna17   |-> kept[g].Coluna17,
            Quantidade |-> contagem[kept[g].Chave],
            Coluna2    |-> kept[g].Coluna2,
            Coluna23   |-> kept[g].Coluna23]]

\* Steps 3 to 6 of the processing: the AggregatedRecords of a projected table.
Aggregate(df) == merge(groupby_first(df), value_counts(df))

(***************************************************************************)
(* The worksheet.                                                          *)
(***************************************************************************)
FinalNames == <<"Chave", "Coluna9", "Coluna15", "Coluna17", "Quantidade", "Coluna2", "Coluna23">>

fillna(v) == IF v = NaN THEN "" ELSE v

\* df_to_upload.fillna('').values.tolist(): one list per row, in the final column
\* order, NaN replaced by ''; the count is sent as its decimal text.
tolist(df) ==
    [n \in DOMAIN df |->
       <<fillna(df[n].Chave), fillna(df[n].Coluna9), fillna(df[n].Coluna15),
         fillna(df[n].Coluna17), ToString(df[n].Quantidade),
         fillna(df[n].Coluna2), fillna(df[n].Coluna23)>>]

\* A clear that leaves the rows where they are.
clear_nothing(sh) == sh

\* aba.clear()
clear(sh) == <<>>

\* set_with_dataframe(aba, df_to_upload.head(0)): the labels go to row 1.
set_with_dataframe(sh) == IF sh = <<>> THEN <<FinalNames>> ELSE [sh EXCEPT ![1] = FinalNames]

\* aba.append_rows(chunk): the rows go below the last row of the sheet.
append_rows(sh, chunk) == sh \o chunk

\* A slice that stops one row early: dados_lista[i:i + chunk_size - 1].
ChunkShort(lista, from, size) ==
    SubSeq(lista, from + 1, IF from + size - 1 < Len(lista) THEN from + size - 1 ELSE Len(lista))

\* dados_lista[i:i + chunk_size]
Chunk(lista, from, size) ==
    SubSeq(lista, from + 1, IF from + size < Len(lista) THEN from + size ELSE Len(lista))

\* What the worksheet holds before the run.
OldSheet == <<FinalNames, <<"K0", "old", "old", "old", "7", "old", "old">>>>

Call(r, op, rows, ok) == [run |-> r, op |-> op, rows |-> rows, ok |-> ok]

(***************************************************************************)
(* The archive.                                                            *)
(***************************************************************************)
\* The archive: whether zipfile can open it, and its members in os.listdir order.
BadZipFile == [valid |-> FALSE, members |-> <<>>]
ZipFile(members) == [valid |-> TRUE, members |-> members]

NCols == Max(Range(colunas_desejadas)) + 1
StdHeader == [c \in 1..NCols |-> c - 1]
\* Fewer columns than the filter needs, one column more than the export has, and
\* as many columns as the export with another label on the last.
ShortHeader == SubSeq(StdHeader, 1, FilterCol)
WideHeader == Append(StdHeader, NCols)
RenamedHeader == [StdHeader EXCEPT ![NCols] = NCols + 1]

\* A line of a part-file whose labels are h: the key under label 0, the facility
\* under label 12, under every other label a text that names the label.
Line(h, key, fac) ==
    [c \in DOMAIN h |->
       IF h[c] = colunas_desejadas[1] THEN key
       ELSE IF h[c] = FilterCol THEN fac
       ELSE "c" \o ToString(h[c])]

CsvFile(h, lines) == [csv |-> TRUE, readable |-> TRUE, header |-> h, lines |-> lines]
NonCsv == [csv |-> FALSE, readable |-> TRUE, header |-> <<>>, lines |-> <<>>]
Unreadable == [csv |-> TRUE, readable |-> FALSE, header |-> <<>>, lines |-> <<>>]

\* The lines of a part-file: n lines with the keys K(o+1) .. K(o+n), one facility.
Lines(h, n, o, fac) == [k \in 1..n |-> Line(h, Key(o + k), fac)]

Members ==
    {NonCsv, Unreadable, CsvFile(ShortHeader, <<>>)}
    \cup {CsvFile(h, Lines(h, 1, 0, Facility)) : h \in {ShortHeader, WideHeader, RenamedHeader}}
    \cup {CsvFile(StdHeader, Lines(StdHeader, n, o, Facility)) :
            n \in 0..MaxFileRows, o \in 0..(MaxKeys - MaxFileRows)}
    \cup {CsvFile(StdHeader, Lines(StdHeader, n, 0, OtherFacility)) : n \in 1..MaxFileRows}

Bundles == {BadZipFile} \cup {ZipFile(ms) : ms \in SeqsUpTo(Members, MaxFiles)}

(***************************************************************************)
(* main(): runs, one step per call that can fail or that another run can   *)
(* interleave with.                                                        *)
(***************************************************************************)
Runs == DOMAIN pc

MsgMain == "Erro durante o processo principal"
MsgRename == "Erro ao renomear o arquivo"
MsgNoCsv == "Nenhum arquivo CSV encontrado no ZIP."
MsgProcessError == "Erro ao descompactar ou processar os dados"
MsgProcessed == "Processamento de dados concluido com sucesso."
MsgNoData == "Nenhum dado para enviar ao Google Sheets (DataFrame vazio ou None)."
MsgSheetError == "Erro ao enviar para o Google Sheets"
MsgSent == "Dados enviados para o Google Sheets com sucesso!"

Goto(r, place) == pc' = [pc EXCEPT ![r] = place]
Prints(r, msg) == printed' = [printed EXCEPT ![r] = @ \cup {msg}]
\* os.makedirs(DOWNLOAD_DIR, exist_ok=True)
MakeDownloadDir(r) ==
    /\ pc[r] = "start"
    /\ download_dir' = TRUE
    /\ Goto(r, "launch")
    /\ UNCHANGED <<bundle, unzip_folder, browser, all_dfs, df_final, df_selecionado,
                   final_dataframe, printed, sheet, sinkLog, chunk_size, dados_lista, i>>

\* The browser, context and page are opened before the try: a failure leaves main.
Launch(r) ==
    /\ pc[r] = "launch"
    /\ \/ browser' = "open" /\ Goto(r, "acquire")
       \/ browser' = browser /\ Goto(r, "raised")
    /\ UNCHANGED <<bundle, download_dir, unzip_folder, all_dfs, df_final, df_selecionado,
                   final_dataframe, printed, sheet, sinkLog, chunk_size, dados_lista, i>>

\* Login, navigation and download; a failure is caught by main's except.
Acquire(r) ==
    /\ pc[r] = "acquire"
    /\ \/ Goto(r, "rename") /\ printed' = printed
       \/ Goto(r, "finally") /\ Prints(r, MsgMain)
    /\ UNCHANGED <<bundle, download_dir, unzip_folder, browser, all_dfs, df_final,
                   df_selecionado, final_dataframe, sheet, sinkLog, chunk_size,
                   dados_lista, i>>

\* rename_downloaded_file returns the new path, or None after a failure, and main
\* goes on only with a path.
Rename(r) ==
    /\ pc[r] = "rename"
    /\ \/ Goto(r, "extract") /\ printed' = printed
       \/ Goto(r, "finally") /\ Prints(r, MsgRename)
    /\ UNCHANGED <<bundle, download_dir, unzip_folder, browser, all_dfs, df_final,
                   df_selecionado, final_dataframe, sheet, sinkLog, chunk_size,
                   dados_lista, i>>

csv_files == SelectSeq(bundle.members, LAMBDA f : f.csv)

\* unzip_and_process_data up to the list of CSV files: the folder is made, the
\* archive extracted.  A bad archive raises, and the except returns None with the
\* folder left; no CSV file returns None with the folder removed.
Extract(r) ==
    /\ pc[r] = "extract"
    /\ IF ~bundle.valid
       THEN /\ unzip_folder' = TRUE
            /\ Prints(r, MsgProcessError)
            /\ Goto(r, "update")
       ELSE IF csv_files = <<>>
       THEN /\ unzip_folder' = FALSE
            /\ Prints(r, MsgNoCsv)
            /\ Goto(r, "update")
       ELSE /\ unzip_folder' = TRUE
            /\ printed' = printed
            /\ Goto(r, "process")
    /\ final_dataframe' = [final_dataframe EXCEPT ![r] = None]
    /\ UNCHANGED <<bundle, download_dir, browser, all_dfs, df_final, df_selecionado,
                   sheet, sinkLog, chunk_size, dados_lista, i>>

\* unzip_and_process_data from the read on: read, concat, filter, projection,
\* aggregation, then the folder is removed and the result returned.  An exception
\* anywhere returns None with the folder left.
Process(r) ==
    /\ pc[r] = "process"
    /\ IF \E n \in DOMAIN csv_files : ~csv_files[n].readable
       THEN /\ UNCHANGED <<all_dfs, df_final, df_selecionado, unzip_folder>>
            /\ final_dataframe' = [final_dataframe EXCEPT ![r] = None]
            /\ Prints(r, MsgProcessError)
       ELSE LET dfs == [n \in DOMAIN csv_files |-> read_csv(csv_files[n])]
                merged == concat(dfs)
            IN  /\ all_dfs' = Some(dfs)
                /\ df_final' = Some(merged)
                /\ IF FilterRaises(merged) \/ ProjectRaises(Filter(merged))
                   THEN /\ UNCHANGED <<df_selecionado, unzip_folder>>
                        /\ final_dataframe' = [final_dataframe EXCEPT ![r] = None]
                        /\ Prints(r, MsgProcessError)
                   ELSE /\ df_selecionado' = Some(Project(Filter(merged)))
                        /\ final_dataframe' =
                             [final_dataframe EXCEPT ![r] = Some(Aggregate(Project(Filter(merged))))]
                        /\ unzip_folder' = FALSE
                        /\ Prints(r, MsgProcessed)
    /\ Goto(r, "update")
    /\ UNCHANGED <<bundle, download_dir, browser, sheet, sinkLog, chunk_size, dados_lista, i>>

\* The test without the .empty part.
NothingToSendNoneOnly(df) == df.none

\* update_google_sheet_with_dataframe: nothing to send when the table is None or empty.
NothingToSend(df) == df.none \/ Len(df.df) = 0

Update(r) ==
    /\ pc[r] = "update"
    /\ IF NothingToSend(final_dataframe[r])
       THEN Prints(r, MsgNoData) /\ Goto(r, "finally")
       ELSE printed' = printed /\ Goto(r, "authorize")
    /\ UNCHANGED <<bundle, download_dir, unzip_folder, browser, all_dfs, df_final,
                   df_selecionado, final_dataframe, sheet, sinkLog, chunk_size,
                   dados_lista, i>>

\* The except of update_google_sheet_with_dataframe: the error is printed and the
\* function returns.
SheetError(r) == Prints(r, MsgSheetError) /\ Goto(r, "finally")

\* ServiceAccountCredentials.from_json_keyfile_name and gspread.authorize
Authorize(r) ==
    /\ pc[r] = "authorize"
    /\ \/ Goto(r, "open") /\ printed' = printed
       \/ SheetError(r)
    /\ UNCHANGED <<bundle, download_dir, unzip_folder, browser, all_dfs, df_final,
                   df_selecionado, final_dataframe, sheet, sinkLog, chunk_size,
                   dados_lista, i>>

\* An open that empties the worksheet it is looking up.
OpenClears(r) ==
    /\ pc[r] = "open"
    /\ \/ /\ Goto(r, "clear") /\ printed' = printed
          /\ sinkLog' = Append(sinkLog, Call(r, "open", 0, TRUE))
       \/ /\ SheetError(r)
          /\ sinkLog' = Append(sinkLog, Call(r, "open", 0, FALSE))
    /\ sheet' = clear(sheet)
    /\ UNCHANGED <<bundle, download_dir, unzip_folder, browser, all_dfs, df_final,
                   df_selecionado, final_dataframe, chunk_size, dados_lista, i>>

\* client.open(...) and planilha.worksheet("Packed")
Open(r) ==
    /\ pc[r] = "open"
    /\ \/ /\ Goto(r, "clear") /\ printed' = printed
          /\ sinkLog' = Append(sinkLog, Call(r, "open", 0, TRUE))
       \/ /\ SheetError(r)
          /\ sinkLog' = Append(sinkLog, Call(r, "open", 0, FALSE))
    /\ UNCHANGED <<bundle, download_dir, unzip_folder, browser, all_dfs, df_final,
                   df_selecionado, final_dataframe, sheet, chunk_size, dados_lista, i>>

\* A clear that waits while another run is between its clear and its last batch.
ClearExclusive(r) ==
    /\ pc[r] = "clear"
    /\ \A o \in Runs \ {r} : pc[o] \notin {"header", "append"}
    /\ \/ /\ Goto(r, "header") /\ printed' = printed
          /\ sheet' = clear(sheet)
          /\ sinkLog' = Append(sinkLog, Call(r, "clear", 0, TRUE))
       \/ /\ SheetError(r)
          /\ sheet' = sheet
          /\ sinkLog' = Append(sinkLog, Call(r, "clear", 0, FALSE))
    /\ UNCHANGED <<bundle, download_dir, unzip_folder, browser, all_dfs, df_final,
                   df_selecionado, final_dataframe, chunk_size, dados_lista, i>>

\* aba.clear()
Clear(r) ==
    /\ pc[r] = "clear"
    /\ \/ /\ Goto(r, "header") /\ printed' = printed
          /\ sheet' = clear(sheet)
          /\ sinkLog' = Append(sinkLog, Call(r, "clear", 0, TRUE))
       \/ /\ SheetError(r)
          /\ sheet' = sheet
          /\ sinkLog' = Append(sinkLog, Call(r, "clear", 0, FALSE))
    /\ UNCHANGED <<bundle, download_dir, unzip_folder, browser, all_dfs, df_final,
                   df_selecionado, final_dataframe, chunk_size, dados_lista, i>>

\* set_with_dataframe(aba, df_to_upload.head(0)), then the rows are prepared.
Header(r) ==
    /\ pc[r] = "header"
    /\ \/ /\ Goto(r, "append") /\ printed' = printed
          /\ sheet' = set_with_dataframe(sheet)
          /\ sinkLog' = Append(sinkLog, Call(r, "header", 1, TRUE))
          /\ dados_lista' = [dados_lista EXCEPT ![r] = tolist(final_dataframe[r].df)]
          /\ i' = [i EXCEPT ![r] = 0]
       \/ /\ SheetError(r)
          /\ sinkLog' = Append(sinkLog, Call(r, "header", 1, FALSE))
          /\ UNCHANGED <<sheet, dados_lista, i>>
    /\ UNCHANGED <<bundle, download_dir, unzip_folder, browser, all_dfs, df_final,
                   df_selecionado, final_dataframe, chunk_size>>

\* A loop whose try is inside: a failed batch is reported and the next one sent.
AppendRowsContinue(r) ==
    /\ pc[r] = "append"
    /\ i[r] < Len(dados_lista[r])
    /\ LET chunk == Chunk(dados_lista[r], i[r], chunk_size)
       IN  \/ /\ sheet' = append_rows(sheet, chunk)
              /\ sinkLog' = Append(sinkLog, Call(r, "append", Len(chunk), TRUE))
              /\ printed' = printed
           \/ /\ Prints(r, MsgSheetError)
              /\ sinkLog' = Append(sinkLog, Call(r, "append", Len(chunk), FALSE))
              /\ sheet' = sheet
    /\ i' = [i EXCEPT ![r] = @ + chunk_size]
    /\ UNCHANGED <<pc, bundle, download_dir, unzip_folder, browser, all_dfs, df_final,
                   df_selecionado, final_dataframe, chunk_size, dados_lista>>

\* One turn of the loop: for i in range(0, len(dados_lista), chunk_size).
AppendRows(r) ==
    /\ pc[r] = "append"
    /\ i[r] < Len(dados_lista[r])
    /\ LET chunk == Chunk(dados_lista[r], i[r], chunk_size)
       IN  \/ /\ sheet' = append_rows(sheet, chunk)
              /\ sinkLog' = Append(sinkLog, Call(r, "append", Len(chunk), TRUE))
              /\ i' = [i EXCEPT ![r] = @ + chunk_size]
              /\ UNCHANGED <<pc, printed>>
           \/ /\ SheetError(r)
              /\ sinkLog' = Append(sinkLog, Call(r, "append", Len(chunk), FALSE))
              /\ UNCHANGED <<sheet, i>>
    /\ UNCHANGED <<bundle, download_dir, unzip_folder, browser, all_dfs, df_final,
                   df_selecionado, final_dataframe, chunk_size, dados_lista>>

\* The loop is over.
Uploaded(r) ==
    /\ pc[r] = "append"
    /\ i[r] >= Len(dados_lista[r])
    /\ Prints(r, MsgSent)
    /\ Goto(r, "finally")
    /\ UNCHANGED <<bundle, download_dir, unzip_folder, browser, all_dfs, df_final,
                   df_selecionado, final_dataframe, sheet, sinkLog, chunk_size,
                   dados_lista, i>>

\* main's finally: browser.close(), then DOWNLOAD_DIR is removed with all it
\* holds.  A failing close leaves main before the removal.
Finally(r) ==
    /\ pc[r] = "finally"
    /\ \/ /\ browser' = "closed"
          /\ download_dir' = FALSE
          /\ unzip_folder' = FALSE
          /\ Goto(r, "returned")
       \/ /\ browser' = "close_failed"
          /\ UNCHANGED <<download_dir, unzip_folder>>
          /\ Goto(r, "raised")
    /\ UNCHANGED <<bundle, all_dfs, df_final, df_selecionado, final_dataframe, printed,
                   sheet, sinkLog, chunk_size, dados_lista, i>>

Init ==
    /\ pc = [r \in {1} |-> "start"]
    /\ bundle \in Bundles
    /\ download_dir = FALSE
    /\ unzip_folder = FALSE
    /\ browser = "none"
    /\ all_dfs = None
    /\ df_final = NoFrame
    /\ df_selecionado = None
    /\ final_dataframe = [r \in {1} |-> None]
    /\ printed = [r \in {1} |-> {}]
    /\ sheet = OldSheet
    /\ sinkLog = <<>>
    /\ chunk_size \in 1..MaxChunkSize
    /\ dados_lista = [r \in {1} |-> <<>>]
    /\ i = [r \in {1} |-> 0]

Next ==
    \/ \E r \in Runs : MakeDownloadDir(r)
    \/ \E r \in Runs : Launch(r)
    \/ \E r \in Runs : Acquire(r)
    \/ \E r \in Runs : Rename(r)
    \/ \E r \in Runs : Extract(r)
    \/ \E r \in Runs : Process(r)
    \/ \E r \in Runs : Update(r)
    \/ \E r \in Runs : Authorize(r)
    \/ \E r \in Runs : Open(r)
    \/ \E r \in Runs : Clear(r)
    \/ \E r \in Runs : Header(r)
    \/ \E r \in Runs : AppendRows(r)
    \/ \E r \in Runs : Uploaded(r)
    \/ \E r \in Runs : Finally(r)

Spec == Init /\ [][Next]_vars

(***************************************************************************)
(* The aggregation alone, over projected tables with missing keys and      *)
(* missing attribute cells.                                                *)
(***************************************************************************)
AttrValues == {NaN, "a", "b"}
\* The five attribute cells of a row: two free cells, repeated.
AttrTuples == {t \in [1..5 -> AttrValues] : t[3] = t[1] /\ t[4] = t[2] /\ t[5] = t[1]}

ProjectedRecords ==
    {[Chave |-> k, Coluna9 |-> t[1], Coluna15 |-> t[2], Coluna17 |-> t[3],
      Coluna2 |-> t[4], Coluna23 |-> t[5]] : k \in Keys \cup {NaN}, t \in AttrTuples}

\* Steps 3 to 6 of unzip_and_process_data on the projected table.
AggregateStep(r) ==
    /\ pc[r] = "aggregate"
    /\ final_dataframe' = [final_dataframe EXCEPT ![r] = Some(Aggregate(df_selecionado.df))]
    /\ Goto(r, "aggregated")
    /\ UNCHANGED <<bundle, download_dir, unzip_folder, browser, all_dfs, df_final,
                   df_selecionado, printed, sheet, sinkLog, chunk_size, dados_lista, i>>

InitAgg ==
    /\ pc = [r \in {1} |-> "aggregate"]
    /\ bundle = ZipFile(<<>>)
    /\ download_dir = TRUE
    /\ unzip_folder = TRUE
    /\ browser = "open"
    /\ all_dfs = None
    /\ df_final = NoFrame
    /\ df_selecionado \in {Some(t) : t \in SeqsUpTo(ProjectedRecords, MaxRows)}
    /\ final_dataframe = [r \in {1} |-> None]
    /\ printed = [r \in {1} |-> {}]
    /\ sheet = OldSheet
    /\ sinkLog = <<>>
    /\ chunk_size = 1
    /\ dados_lista = [r \in {1} |-> <<>>]
    /\ i = [r \in {1} |-> 0]

NextAgg == \E r \in Runs : AggregateStep(r)

SpecAgg == InitAgg /\ [][NextAgg]_vars

(***************************************************************************)
(* Two runs publishing to the same worksheet at the same time, each with   *)
(* its own table.                                                          *)
(***************************************************************************)
\* A result of n records whose attribute cells name the run.
ResultOf(tag, n) ==
    [g \in 1..n |->
       [Chave |-> Key(g), Coluna9 |-> tag, Coluna15 |-> tag, Coluna17 |-> tag,
        Quantidade |-> 1, Coluna2 |-> tag, Coluna23 |-> tag]]

InitRace ==
    /\ pc = [r \in {1, 2} |-> "update"]
    /\ bundle = ZipFile(<<>>)
    /\ download_dir = TRUE
    /\ unzip_folder = FALSE
    /\ browser = "open"
    /\ all_dfs = None
    /\ df_final = NoFrame
    /\ df_selecionado = None
    /\ \E n1 \in 1..MaxKeys, n2 \in 1..MaxKeys :
          final_dataframe = <<Some(ResultOf("run1", n1)), Some(ResultOf("run2", n2))>>
    /\ printed = [r \in {1, 2} |-> {}]
    /\ sheet = OldSheet
    /\ sinkLog = <<>>
    /\ chunk_size \in 1..MaxChunkSize
    /\ dados_lista = [r \in {1, 2} |-> <<>>]
    /\ i = [r \in {1, 2} |-> 0]

NextRace ==
    \/ \E r \in Runs : Update(r)
    \/ \E r \in Runs : Authorize(r)
    \/ \E r \in Runs : Open(r)
    \/ \E r \in Runs : Clear(r)
    \/ \E r \in Runs : Header(r)
    \/ \E r \in Runs : AppendRows(r)
    \/ \E r \in Runs : Uploaded(r)

SpecRace == InitRace /\ [][NextRace]_vars

(***************************************************************************)
(* The properties.                                                         *)
(***************************************************************************)
Left(r) == pc[r] \in {"returned", "raised"}
Finished(r) == pc[r] = "finally" \/ Left(r)
CallsOf(r, op) == SelectSeq(sinkLog, LAMBDA c : c.run = r /\ c.op = op)
CeilDiv(n, b) == (n + b - 1) \div b

RECURSIVE SumRows(_)
SumRows(calls) == IF calls = <<>> THEN 0 ELSE calls[1].rows + SumRows(Tail(calls))

RECURSIVE SumLen(_)
SumLen(dfs) == IF dfs = <<>> THEN 0 ELSE Len(dfs[1].rows) + SumLen(Tail(dfs))

\* C3: a publication of N >= 1 records with batch size B in which no call fails
\* makes one header write and ceil(N/B) append_rows calls, each of 1 to B rows,
\* whose row counts sum to N.
C3_BatchingCompleteness ==
    \A r \in Runs :
        MsgSent \in printed[r] =>
            LET N == Len(final_dataframe[r].df)
                appends == CallsOf(r, "append")
            IN  /\ N >= 1
                /\ Len(CallsOf(r, "header")) = 1
                /\ Len(appends) = CeilDiv(N, chunk_size)
                /\ \A n \in DOMAIN appends :
                       appends[n].ok /\ appends[n].rows \in 1..chunk_size
                /\ SumRows(appends) = N

\* A publication of three records in batches of two: a full and a partial batch.
C3_Witness ==
    /\ MsgSent \in printed[1]
    /\ Len(final_dataframe[1].df) = 3
    /\ chunk_size = 2
    /\ Len(CallsOf(1, "append")) = 2

\* C4: the worksheet calls of a publication come in the order clear, header,
\* batches; no batch precedes the header and no clear follows a write; during
\* the upload the sheet is the header and the rows sent so far, and after a
\* publication without a failing call it is the header and the N records in
\* table order, with nothing of what it held before.
C4_ClearHeaderBatchesInOrder ==
    /\ \A n \in DOMAIN sinkLog :
          /\ sinkLog[n].op = "clear" => \A m \in 1..(n - 1) : sinkLog[m].op = "open"
          /\ sinkLog[n].op = "header" =>
                n > 1 /\ sinkLog[n - 1].op = "clear" /\ sinkLog[n - 1].ok
          /\ sinkLog[n].op = "append" =>
                n > 1 /\ sinkLog[n - 1].op \in {"header", "append"} /\ sinkLog[n - 1].ok
    /\ \A r \in Runs :
          /\ pc[r] = "append" =>
                sheet = <<FinalNames>> \o
                        SubSeq(dados_lista[r], 1, Min({i[r], Len(dados_lista[r])}))
          /\ MsgSent \in printed[r] =>
                /\ sheet = <<FinalNames>> \o tolist(final_dataframe[r].df)
                /\ \A n \in 2..Len(OldSheet) : OldSheet[n] \notin Range(sheet)

\* A finished publication of at least two records over the old contents.
C4_Witness ==
    /\ MsgSent \in printed[1]
    /\ Len(final_dataframe[1].df) >= 2
    /\ Len(sheet) = Len(final_dataframe[1].df) + 1
    /\ sheet # OldSheet

NoCsv(r) == MsgNoCsv \in printed[r]
FilterKeptNothing ==
    /\ ~df_final.none
    /\ ~FilterRaises(df_final.df)
    /\ Len(Filter(df_final.df).rows) = 0

C6_SheetUntouchedBeforeClear ==
    (\A n \in DOMAIN sinkLog : sinkLog[n].op # "clear") => sheet = OldSheet

\* The worksheet could not be opened and the run is over.
C6_Witness ==
    /\ pc[1] = "returned"
    /\ MsgSheetError \in printed[1]
    /\ Len(sinkLog) = 1
    /\ sinkLog[1].op = "open"
    /\ ~sinkLog[1].ok
    /\ sheet = OldSheet

FailedAppend(r) == \E n \in DOMAIN sinkLog :
                       sinkLog[n].run = r /\ sinkLog[n].op = "append" /\ ~sinkLog[n].ok
\* main learns of a failure through an exception: its except prints, or the
\* exception leaves main.
SurfacedToMain(r) == MsgMain \in printed[r] \/ pc[r] = "raised"

C8_DirectoriesRemovedOnEveryExit ==
    \A r \in Runs : (Left(r) /\ browser # "none") => ~download_dir /\ ~unzip_folder

SameLabels(dfs) == \A n \in DOMAIN dfs : dfs[n].columns = dfs[1].columns
SameColumnCount(dfs) == \A n \in DOMAIN dfs : Len(dfs[n].columns) = Len(dfs[1].columns)
Labels(dfs) == UNION {Range(dfs[n].columns) : n \in DOMAIN dfs}

Aggregated == pc[1] = "aggregated"
KeyValues(df) == {df[n].Chave : n \in DOMAIN df}
RECURSIVE SumQuantidade(_)
SumQuantidade(df) == IF df = <<>> THEN 0 ELSE df[1].Quantidade + SumQuantidade(Tail(df))
FirstWith(df, k) == Min({n \in DOMAIN df : df[n].Chave = k})

\* C1: the aggregation gives one record per distinct Key value of the projected
\* records, a missing Key included; every Quantidade is at least 1 and the
\* Quantidade values sum to the number of projected records.
C1_OneRecordPerKeyAndCountsSum ==
    Aggregated =>
        LET df == df_selecionado.df
            res == final_dataframe[1].df
        IN  /\ \A m, n \in DOMAIN res : res[m].Chave = res[n].Chave => m = n
            /\ \A n \in DOMAIN res : res[n].Quantidade >= 1
            /\ Len(res) = Cardinality(KeyValues(df))
            /\ SumQuantidade(res) = Len(df)

\* C2: the attribute cells of each aggregated record are those of the first
\* projected record with its key, missing cells included.
C2_AttributesOfFirstRecord ==
    Aggregated =>
        LET df == df_selecionado.df
            res == final_dataframe[1].df
        IN  \A n \in DOMAIN res :
                LET f == df[FirstWith(df, res[n].Chave)]
                IN  /\ res[n].Coluna9 = f.Coluna9
                    /\ res[n].Coluna15 = f.Coluna15
                    /\ res[n].Coluna17 = f.Coluna17
                    /\ res[n].Coluna2 = f.Coluna2
                    /\ res[n].Coluna23 = f.Coluna23

InUpload(r) == pc[r] \in {"header", "append"}
CleanRun(r) == MsgSent \in printed[r] /\ MsgSheetError \notin printed[r]
Published(r) == <<FinalNames>> \o tolist(final_dataframe[r].df)

\* C10: nothing serializes two runs on the same worksheet.  While one run is
\* between its clear and its last batch, the clear, the header write and every
\* batch of the other run can be made at any moment; the witness is a state in
\* which both runs have finished without a failing call and the sheet is the
\* publication of neither.
C10_RunsAreNotSerialized ==
    \A r, o \in Runs :
        (r # o /\ InUpload(o)) =>
            /\ pc[r] = "clear" => ENABLED Clear(r)
            /\ pc[r] = "header" => ENABLED Header(r)
            /\ (pc[r] = "append" /\ i[r] < Len(dados_lista[r])) => ENABLED AppendRows(r)

\* Both runs finished without a failing call and the sheet is neither run's table.
C10_Witness ==
    /\ CleanRun(1)
    /\ CleanRun(2)
    /\ \A n \in DOMAIN sinkLog : sinkLog[n].ok
    /\ sheet # Published(1)
    /\ sheet # Published(2)

====
